---- MODULE Spec2Model ----
(***************************************************************************)
(* otto: `otto start` (Commands.cmd_start) and the upstart service helpers *)
(* of ottolib/utils.py, as a state machine.                                *)
(*                                                                         *)
(* One process per `otto start` invocation.  The container runtime, the    *)
(* container's persisted configuration, its delta, the archive store and   *)
(* the image resolver live in ottolib/container.py and in a part of        *)
(* ottolib/utils.py that are not among the source files; they are modelled *)
(* from the specification's contracts (sections 4.2 - 4.5).                *)
(***************************************************************************)
EXTENDS Integers, Sequences, FiniteSets, TLC

VARIABLES
    state,      \* runtime state of the container: "STOPPED" or "RUNNING"
    config,     \* the container's persisted configuration record
    delta,      \* TRUE iff a delta overlay is present on disk
    dm,         \* host display manager (lightdm): "running", "stopped", "absent"
    pc,         \* pc[p]: position of invocation p inside cmd_start
    args,       \* args[p]: the parsed command line (self.args)
    local,      \* local[p]: cmd_start's local variables
    ret,        \* ret[p]: <<>> while running, <<r>> once cmd_start returned r
    log,        \* log[p]: the calls and diagnostics issued by this invocation
    call        \* a helper called on its own: its name, input and result

vars == <<state, config, delta, dm, pc, args, local, ret, log, call>>

Procs == {1, 2}

----------------------------------------------------------------------------
(* Fixtures: images, their disc metadata, archives.                        *)

IsoImages == {"A", "B", "C", "D"}
SquashfsImages == {"S"}
Images == IsoImages \cup SquashfsImages

NoPath == <<>>
Unset == <<"unset">>

ImagePath(img) == <<"image", img>>
MountPath(img) == <<"mnt", img>>
SquashfsIn(img) == <<"mnt", img, "casper", "filesystem.squashfs">>

\* content of <mountpoint>/.disk/info, one character per element
DiskInfo(img) ==
    IF img = "B" THEN <<"\"", "U", " ", "-", "(", "b", ")", "\"">>
                 ELSE <<"U", " ", "-", " ", "a", "_", "(", "x", ")">>

\* os.listdir(<mountpoint>/dists)
Dists(img) ==
    IF img = "C" THEN <<"stable", "r2", "unstable">>
                 ELSE <<"r1", "stable", "unstable">>

\* lines of <mountpoint>/README.diskdefines, split into tokens
DiskDefines(img) ==
    IF img = "D" THEN << <<"#define", "DISKNAME", "U">>, <<"#define", "ARCH", "a2">> >>
                 ELSE << <<"#define", "ARCH", "a1">>, <<"#define", "ARCHi386", "0">> >>

\* the archive a previous run of image "A" saved with --archive
ArchivePaths == {"good.tgz", "missing.tgz"}
ArchiveExists(path) == path = "good.tgz"

----------------------------------------------------------------------------
(* Commands._extract_cd_info                                               *)

\* str.replace(c, r) for a one-character pattern c and a replacement r
RECURSIVE ReplaceChar(_, _, _)
ReplaceChar(s, c, r) ==
    IF s = <<>> THEN <<>>
    ELSE (IF Head(s) = c THEN r ELSE <<Head(s)>>) \o ReplaceChar(Tail(s), c, r)

\* "___" replaced again and again until none is left, instead of in one pass
RECURSIVE ReplaceTripleRescanning(_)
ReplaceTripleRescanning(s) ==
    IF Len(s) < 3 THEN s
    ELSE IF s[1] = "_" /\ s[2] = "_" /\ s[3] = "_"
         THEN ReplaceTripleRescanning(<<"_">> \o SubSeq(s, 4, Len(s)))
         ELSE <<s[1]>> \o ReplaceTripleRescanning(Tail(s))

\* str.replace("___", "_"): one left-to-right pass over non-overlapping matches
RECURSIVE ReplaceTriple(_)
ReplaceTriple(s) ==
    IF Len(s) < 3 THEN s
    ELSE IF s[1] = "_" /\ s[2] = "_" /\ s[3] = "_"
         THEN <<"_">> \o ReplaceTriple(SubSeq(s, 4, Len(s)))
         ELSE <<s[1]>> \o ReplaceTriple(Tail(s))

LowerChar(c) ==
    CASE c = "U" -> "u"
      [] c = "A" -> "a"
      [] c = "B" -> "b"
      [] c = "X" -> "x"
      [] OTHER -> c

Lower(s) == [i \in 1..Len(s) |-> LowerChar(s[i])]

Isoid(info) ==
    Lower(ReplaceTriple(
        ReplaceChar(
            ReplaceChar(
                ReplaceChar(
                    ReplaceChar(
                        ReplaceChar(info, "\"", <<>>),
                        " ", <<"_">>),
                    "-", <<"_">>),
                "(", <<>>),
            ")", <<>>)))

\* the last entry of dists/ that is neither "stable" nor "unstable"
RECURSIVE Release(_)
Release(dists) ==
    IF dists = <<>> THEN Unset
    ELSE LET last == dists[Len(dists)]
         IN  IF last \notin {"stable", "unstable"} THEN <<last>>
             ELSE Release(SubSeq(dists, 1, Len(dists) - 1))

\* the last token of the last line that starts with "#define ARCH  "
RECURSIVE Arch(_)
Arch(lines) ==
    IF lines = <<>> THEN Unset
    ELSE LET line == lines[Len(lines)]
         IN  IF Len(line) >= 2 /\ line[1] = "#define" /\ line[2] = "ARCH"
             THEN <<line[Len(line)]>>
             ELSE Arch(SubSeq(lines, 1, Len(lines) - 1))

\* image_path is the mount point <<"mnt", img>> of an image
_extract_cd_info(image_path) ==
    LET img == image_path[2]
    IN  [isoid   |-> Isoid(DiskInfo(img)),
         release |-> Release(Dists(img)),
         arch    |-> Arch(DiskDefines(img))]

----------------------------------------------------------------------------
(* ottolib/utils.py: upstart service helpers.  Each call of the `status`   *)
(* command is an input: its exit status and the tag of what it printed.    *)

DmStates == {"running", "stopped", "absent"}

StatusNormal(d) ==
    CASE d = "running" -> [ret |-> 0, msg |-> "start/running"]
      [] d = "stopped" -> [ret |-> 0, msg |-> "stop/waiting"]
      [] d = "absent"  -> [ret |-> 256, msg |-> "status: Unknown job:"]

\* what `status lightdm` can answer while the service is in state d
StatusOutcomes(d) ==
    { StatusNormal(d),
      [ret |-> 0, msg |-> "start/starting"],
      [ret |-> 256, msg |-> "error"],
      [ret |-> 1, msg |-> "status: Unknown job:"] }

service_exists(q) ==
    IF q.ret = 0 THEN 0
    ELSE IF q.ret = 256 /\ q.msg = "status: Unknown job:" THEN 1
    ELSE -1

\* True, False or -1, as the integers 1, 0, -1
service_is_running(q1, q2) ==
    IF service_exists(q1) # 0 THEN -1
    ELSE IF q2.ret # 0 THEN -1
    ELSE IF q2.msg = "start/running" THEN 1
    ELSE IF q2.msg = "stop/waiting" THEN 0
    ELSE -1

\* lines 141-148 with the test of the current state left out: the command is
\* issued whatever the state of the service
service_start_stopWithoutStateTest(in, start) ==
    IF in.uid # 0 THEN [ret |-> 3, issued |-> FALSE]
    ELSE LET exists == service_exists(in.q1)
         IN  IF exists < 0 THEN [ret |-> -1, issued |-> FALSE]
             ELSE IF exists = 1 THEN [ret |-> 2, issued |-> FALSE]
             ELSE LET status == service_is_running(in.q2, in.q3)
                  IN  IF status < 0 THEN [ret |-> 99, issued |-> FALSE]
                      ELSE IF in.cmdret # 0 THEN [ret |-> 1, issued |-> TRUE]
                      ELSE [ret |-> 0, issued |-> TRUE]

\* in: [uid, q1, q2, q3, cmdret]; the result is the return code and whether the
\* start/stop command was issued
service_start_stop(in, start) ==
    IF in.uid # 0 THEN [ret |-> 3, issued |-> FALSE]
    ELSE LET exists == service_exists(in.q1)
         IN  IF exists < 0 THEN [ret |-> -1, issued |-> FALSE]
             ELSE IF exists = 1 THEN [ret |-> 2, issued |-> FALSE]
             ELSE LET status == service_is_running(in.q2, in.q3)
                  IN  IF status < 0 THEN [ret |-> 99, issued |-> FALSE]
                      ELSE IF status = (IF start = "start" THEN 1 ELSE 0)
                           THEN [ret |-> 0, issued |-> FALSE]
                      ELSE IF in.cmdret # 0 THEN [ret |-> 1, issued |-> TRUE]
                      ELSE [ret |-> 0, issued |-> TRUE]

service_start(in) == service_start_stop(in, "start")

service_stop(in) == service_start_stop(in, "stop")

SvcInputs(d) ==
    [uid : {0, 1000}, q1 : StatusOutcomes(d), q2 : StatusOutcomes(d),
     q3 : StatusOutcomes(d), cmdret : {0, 1}]

\* the display manager after a service_stop call
DmAfterStop(d, r) == IF r.issued /\ r.ret = 0 THEN "stopped" ELSE d

\* every outcome of utils.service_stop("lightdm") in each state of the service
StopOutcomes ==
    [d \in DmStates |->
        { [ret |-> service_stop(in).ret,
           issued |-> service_stop(in).issued,
           dm |-> DmAfterStop(d, service_stop(in))] : in \in SvcInputs(d) }]

----------------------------------------------------------------------------
(* The container (ottolib/container.py) and the image resolver             *)
(* (utils.get_iso_and_squashfs), from the specification's contracts.       *)

\* Container.running
Running == state = "RUNNING"

FreshConfig ==
    [image |-> NoPath, iso |-> NoPath, squashfs |-> NoPath,
     isoid |-> Unset, release |-> Unset, arch |-> Unset, archive |-> FALSE]

\* the metadata stored in good.tgz: a run of image "A" that asked for an archive
ArchivedConfig ==
    [image |-> ImagePath("A"), iso |-> MountPath("A"), squashfs |-> SquashfsIn("A"),
     isoid |-> _extract_cd_info(MountPath("A")).isoid,
     release |-> _extract_cd_info(MountPath("A")).release,
     arch |-> _extract_cd_info(MountPath("A")).arch,
     archive |-> TRUE]

\* ImageResolver.resolve: the (iso, squashfs) pairs the resolver can answer
get_iso_and_squashfs(imagepath) ==
    LET img == imagepath[2]
    IN  IF img \in SquashfsImages
        THEN { [iso |-> NoPath, squashfs |-> imagepath] }
        ELSE { [iso |-> MountPath(img), squashfs |-> SquashfsIn(img)],
               [iso |-> NoPath, squashfs |-> NoPath] }

\* Container.start: whether the runtime started the container; a container
\* that is already running cannot be started again
ContainerStart == IF Running THEN {FALSE} ELSE BOOLEAN

\* Container.stop: whether the runtime stopped the container
ContainerStop == BOOLEAN

\* Container.create without the test of the container's state
ContainerCreateUnguarded ==
    {[called |-> TRUE, ret |-> 0], [called |-> TRUE, ret |-> 1]}

\* Container.create: acts only on a STOPPED container; whether the runtime's
\* create primitive was invoked, and the result code
ContainerCreate ==
    IF state = "STOPPED"
    THEN {[called |-> TRUE, ret |-> 0], [called |-> TRUE, ret |-> 1]}
    ELSE {[called |-> FALSE, ret |-> 1]}

\* Container.destroy: acts only on a STOPPED container; whether the runtime's
\* destroy primitive was invoked, and the result code
ContainerDestroy ==
    IF state = "STOPPED"
    THEN {[called |-> TRUE, ret |-> 0], [called |-> TRUE, ret |-> 1]}
    ELSE {[called |-> FALSE, ret |-> 1]}

\* Container.install_custom_installation: whether the directory was installed
InstallCustom == BOOLEAN

\* os.path.dirname
Dirname(path) == SubSeq(path, 1, Len(path) - 1)

----------------------------------------------------------------------------
(* Commands.cmd_start                                                      *)

ArgSpace ==
    [image : {NoPath} \cup {ImagePath(i) : i \in Images},
     custom_installation : {"none", "dir"},
     new : BOOLEAN,
     keep_delta : BOOLEAN,
     archive : BOOLEAN,
     restore : {"none"} \cup ArchivePaths,
     force_disconnect : BOOLEAN]

NoArgs ==
    [image |-> NoPath, custom_installation |-> "none", new |-> FALSE,
     keep_delta |-> FALSE, archive |-> FALSE, restore |-> "none",
     force_disconnect |-> FALSE]

NoLocal ==
    [keep_delta |-> FALSE, svc |-> 0, imagepath |-> NoPath, iso |-> NoPath,
     squashfs |-> NoPath, cd |-> [isoid |-> Unset, release |-> Unset, arch |-> Unset]]

\* no helper is called on its own while `otto start` runs
NoCall == [fn |-> "none", in |-> <<>>, out |-> <<>>, applied |-> FALSE]

Goto(p, l) == pc' = [pc EXCEPT ![p] = l]

Return(p, r) ==
    /\ pc' = [pc EXCEPT ![p] = "done"]
    /\ ret' = [ret EXCEPT ![p] = <<r>>]

Logged(p, entries) == log' = [log EXCEPT ![p] = log[p] \o entries]

\* lines 152-159 without lines 154-155: a restore does not force keep-delta
BeginKeepDeltaNotForced(p, a) ==
    /\ args' = [args EXCEPT ![p] = a]
    /\ local' = [local EXCEPT ![p] = [NoLocal EXCEPT !.keep_delta = a.keep_delta]]
    /\ IF a.restore # "none" /\ (a.custom_installation # "none" \/ a.new)
       THEN /\ pc' = [pc EXCEPT ![p] = "done"]
            /\ ret' = [ret EXCEPT ![p] = <<1>>]
            /\ log' = [log EXCEPT ![p] = <<"error_incompatible">>]
       ELSE /\ pc' = [pc EXCEPT ![p] = "check_running"]
            /\ ret' = [ret EXCEPT ![p] = <<>>]
            /\ log' = [log EXCEPT ![p] = <<>>]
    /\ UNCHANGED <<state, config, delta, dm, call>>

\* lines 152-159 with the test of line 156 reduced to `self.args.new`
BeginRejectsOnlyNew(p, a) ==
    /\ args' = [args EXCEPT ![p] = a]
    /\ local' = [local EXCEPT ![p] =
                    [NoLocal EXCEPT !.keep_delta = a.keep_delta \/ a.restore # "none"]]
    /\ IF a.restore # "none" /\ a.new
       THEN /\ pc' = [pc EXCEPT ![p] = "done"]
            /\ ret' = [ret EXCEPT ![p] = <<1>>]
            /\ log' = [log EXCEPT ![p] = <<"error_incompatible">>]
       ELSE /\ pc' = [pc EXCEPT ![p] = "check_running"]
            /\ ret' = [ret EXCEPT ![p] = <<>>]
            /\ log' = [log EXCEPT ![p] = <<>>]
    /\ UNCHANGED <<state, config, delta, dm, call>>

\* lines 152-159: the command line is parsed, incompatible parameters rejected
Begin(p, a) ==
    /\ args' = [args EXCEPT ![p] = a]
    /\ local' = [local EXCEPT ![p] =
                    [NoLocal EXCEPT !.keep_delta = a.keep_delta \/ a.restore # "none"]]
    /\ IF a.restore # "none" /\ (a.custom_installation # "none" \/ a.new)
       THEN /\ pc' = [pc EXCEPT ![p] = "done"]
            /\ ret' = [ret EXCEPT ![p] = <<1>>]
            /\ log' = [log EXCEPT ![p] = <<"error_incompatible">>]
       ELSE /\ pc' = [pc EXCEPT ![p] = "check_running"]
            /\ ret' = [ret EXCEPT ![p] = <<>>]
            /\ log' = [log EXCEPT ![p] = <<>>]
    /\ UNCHANGED <<state, config, delta, dm, call>>

\* `otto start <name> ...` is run
Invoke(p) ==
    /\ pc[p] = "idle"
    /\ \E a \in ArgSpace : Begin(p, a)

\* the process exits with cmd_start's return code; its memory is gone
Exit(p) ==
    /\ pc[p] = "done"
    /\ pc' = [pc EXCEPT ![p] = "idle"]
    /\ args' = [args EXCEPT ![p] = NoArgs]
    /\ local' = [local EXCEPT ![p] = NoLocal]
    /\ ret' = [ret EXCEPT ![p] = <<>>]
    /\ log' = [log EXCEPT ![p] = <<>>]
    /\ UNCHANGED <<state, config, delta, dm, call>>

\* lines 161-164 with the test of line 162 left out
CheckRunningSkipped(p) ==
    /\ pc[p] = "check_running"
    /\ Goto(p, "check_session") /\ Logged(p, <<"running_check">>)
    /\ UNCHANGED <<state, config, delta, dm, args, local, ret, call>>

\* lines 161-164 without the return of line 164: the warning is all there is
CheckRunningWarnsOnly(p) ==
    /\ pc[p] = "check_running"
    /\ Goto(p, "check_session")
    /\ Logged(p, IF Running THEN <<"running_check", "warn_already_running">>
                 ELSE <<"running_check">>)
    /\ UNCHANGED <<state, config, delta, dm, args, local, ret, call>>

\* lines 161-164
CheckRunning(p) ==
    /\ pc[p] = "check_running"
    /\ IF Running
       THEN Return(p, 1) /\ Logged(p, <<"running_check", "warn_already_running">>)
       ELSE Goto(p, "check_session") /\ Logged(p, <<"running_check">>) /\ UNCHANGED ret
    /\ UNCHANGED <<state, config, delta, dm, args, local, call>>

\* lines 166-176 with the test of line 169 left out: the session is looked for
\* even with --force-disconnect
CheckSessionIgnoringFlag(p) ==
    /\ pc[p] = "check_session"
    /\ \E session \in BOOLEAN :
          IF session
          THEN Return(p, 1) /\ Logged(p, <<"session_check", "warn_session">>)
          ELSE Goto(p, "service_stop") /\ Logged(p, <<"session_check">>)
               /\ UNCHANGED ret
    /\ UNCHANGED <<state, config, delta, dm, args, local, call>>

\* lines 166-176: pidof gnome-session
CheckSession(p) ==
    /\ pc[p] = "check_session"
    /\ IF ~args[p].force_disconnect
       THEN \E session \in BOOLEAN :
               IF session
               THEN Return(p, 1) /\ Logged(p, <<"session_check", "warn_session">>)
               ELSE Goto(p, "service_stop") /\ Logged(p, <<"session_check">>)
                    /\ UNCHANGED ret
       ELSE Goto(p, "service_stop") /\ UNCHANGED <<ret, log>>
    /\ UNCHANGED <<state, config, delta, dm, args, local, call>>

\* any failure of the stop aborts
FatalWhenNonZero(r) == r > 0

\* line 180: "Not enough privileges or Unknown error: Abort"
Fatal(r) == r > 2

\* lines 178-191 with the restore of lines 186-191 moved before the stop
StopDisplayManagerAfterRestore(p) ==
    /\ pc[p] = "service_stop"
    /\ LET restoring == args[p].restore # "none"
           found == restoring /\ ArchiveExists(args[p].restore)
           before == IF restoring THEN <<"restore">> ELSE <<>>
       IN  /\ config' = IF found THEN ArchivedConfig ELSE config
           /\ delta' = IF found THEN TRUE ELSE delta
           /\ IF restoring /\ ~found
              THEN /\ Return(p, 1) /\ Logged(p, before \o <<"error_no_archive">>)
                   /\ UNCHANGED <<dm, local>>
              ELSE \E r \in StopOutcomes[dm] :
                   /\ dm' = r.dm
                   /\ local' = [local EXCEPT ![p].svc = r.ret]
                   /\ Logged(p, before \o <<"service_stop">>)
                   /\ IF Fatal(r.ret) THEN Return(p, r.ret)
                      ELSE Goto(p, "image") /\ UNCHANGED ret
    /\ UNCHANGED <<state, args, call>>

\* lines 178-183
StopDisplayManager(p) ==
    /\ pc[p] = "service_stop"
    /\ \E r \in StopOutcomes[dm] :
        /\ dm' = r.dm
        /\ local' = [local EXCEPT ![p].svc = r.ret]
        /\ IF Fatal(r.ret)
           THEN Return(p, r.ret)
                /\ Logged(p, <<"service_stop">>
                             \o (IF r.issued THEN <<"stop_command">> ELSE <<>>)
                             \o <<"error_service">>)
           ELSE Goto(p, "restore") /\ UNCHANGED ret
                /\ Logged(p, <<"service_stop">>
                             \o (IF r.issued THEN <<"stop_command">> ELSE <<>>))
    /\ UNCHANGED <<state, config, delta, args, call>>

\* lines 185-191 with the FileNotFoundError swallowed
RestoreIgnoringMissingArchive(p) ==
    /\ pc[p] = "restore"
    /\ IF args[p].restore # "none" /\ ArchiveExists(args[p].restore)
       THEN /\ config' = ArchivedConfig
            /\ delta' = TRUE
            /\ Goto(p, "image") /\ Logged(p, <<"restore">>) /\ UNCHANGED ret
       ELSE /\ Goto(p, "image") /\ UNCHANGED <<ret, config, delta>>
            /\ Logged(p, IF args[p].restore # "none" THEN <<"restore">> ELSE <<>>)
    /\ UNCHANGED <<state, dm, args, local, call>>

\* lines 185-191
Restore(p) ==
    /\ pc[p] = "restore"
    /\ IF args[p].restore # "none"
       THEN IF ArchiveExists(args[p].restore)
            THEN /\ config' = ArchivedConfig
                 /\ delta' = TRUE
                 /\ Goto(p, "image") /\ Logged(p, <<"restore">>) /\ UNCHANGED ret
            ELSE /\ Return(p, 1) /\ Logged(p, <<"restore", "error_no_archive">>)
                 /\ UNCHANGED <<config, delta>>
       ELSE Goto(p, "image") /\ UNCHANGED <<ret, log, config, delta>>
    /\ UNCHANGED <<state, dm, args, local, call>>

\* lines 193-220: image handling; mount and get iso and squashfs path
ResolveImage(p) ==
    /\ pc[p] = "image"
    /\ IF args[p].image = NoPath /\ config.image = NoPath
       THEN /\ Return(p, 1) /\ Logged(p, <<"error_no_image">>)
            /\ UNCHANGED <<config, local>>
       ELSE \E exists \in (IF args[p].image = NoPath THEN BOOLEAN ELSE {TRUE}) :
            LET imagepath == IF args[p].image # NoPath THEN args[p].image
                             ELSE config.image
            IN  IF ~exists
                THEN /\ Return(p, 1) /\ Logged(p, <<"error_image_missing">>)
                     /\ UNCHANGED <<config, local>>
                ELSE \E r \in get_iso_and_squashfs(imagepath) :
                     IF r.iso = NoPath \/ r.squashfs = NoPath
                     THEN /\ Return(p, 1) /\ Logged(p, <<"resolve">>)
                          /\ local' = [local EXCEPT ![p].imagepath = imagepath,
                                                    ![p].iso = r.iso,
                                                    ![p].squashfs = r.squashfs]
                          /\ UNCHANGED config
                     ELSE /\ config' = [config EXCEPT !.iso = r.iso,
                                                      !.squashfs = r.squashfs,
                                                      !.image = imagepath]
                          /\ local' = [local EXCEPT ![p].imagepath = imagepath,
                                                    ![p].iso = r.iso,
                                                    ![p].squashfs = r.squashfs]
                          /\ Goto(p, "custom") /\ UNCHANGED ret
                          /\ Logged(p, <<"resolve", "image_write">>)
    /\ UNCHANGED <<state, delta, dm, args, call>>

\* lines 222-228: custom installation handling
CustomInstallation(p) ==
    /\ pc[p] = "custom"
    /\ LET removed == IF args[p].new THEN <<"remove_custom">> ELSE <<>>
       IN  IF args[p].custom_installation # "none"
           THEN \E installed \in InstallCustom :
                   IF installed
                   THEN Goto(p, "delta") /\ UNCHANGED ret
                        /\ Logged(p, removed \o <<"install_custom">>)
                   ELSE Return(p, 1) /\ Logged(p, removed \o <<"install_custom">>)
           ELSE Goto(p, "delta") /\ UNCHANGED ret /\ Logged(p, removed)
    /\ UNCHANGED <<state, config, delta, dm, args, local, call>>

\* the comparison with the architecture left out
CompatibleIgnoringArch(cfg, cd) ==
    cfg.isoid = cd.isoid /\ cfg.release = cd.release

\* lines 235-237: the stored identity is the identity of the resolved image
Compatible(cfg, cd) ==
    cfg.isoid = cd.isoid /\ cfg.release = cd.release /\ cfg.arch = cd.arch

\* lines 230-251 with line 251 (container_config.arch = arch) left out
ManageDeltaArchNotStored(p) ==
    /\ pc[p] = "delta"
    /\ LET cd == _extract_cd_info(Dirname(Dirname(local[p].squashfs)))
       IN  /\ local' = [local EXCEPT ![p].cd = cd]
           /\ IF local[p].keep_delta /\ ~Compatible(config, cd)
              THEN /\ Return(p, 1)
                   /\ Logged(p, <<"extract_cd_info", "compat_check", "error_delta">>)
                   /\ UNCHANGED <<config, delta>>
              ELSE /\ config' = [config EXCEPT !.isoid = cd.isoid,
                                               !.release = cd.release]
                   /\ delta' = IF local[p].keep_delta THEN delta ELSE FALSE
                   /\ Goto(p, "archive") /\ UNCHANGED ret
                   /\ Logged(p, <<"extract_cd_info">>
                                \o (IF local[p].keep_delta THEN <<"compat_check">>
                                    ELSE <<"remove_delta">>)
                                \o <<"identity_write">>)
    /\ UNCHANGED <<state, dm, args, call>>

\* lines 230-251 with remove_delta called only for an image whose identity
\* differs from the stored one
ManageDeltaKeepsMatchingDelta(p) ==
    /\ pc[p] = "delta"
    /\ LET cd == _extract_cd_info(Dirname(Dirname(local[p].squashfs)))
           keep == local[p].keep_delta \/ Compatible(config, cd)
       IN  /\ local' = [local EXCEPT ![p].cd = cd]
           /\ IF local[p].keep_delta /\ ~Compatible(config, cd)
              THEN /\ Return(p, 1)
                   /\ Logged(p, <<"extract_cd_info", "compat_check", "error_delta">>)
                   /\ UNCHANGED <<config, delta>>
              ELSE /\ config' = [config EXCEPT !.isoid = cd.isoid,
                                               !.release = cd.release,
                                               !.arch = cd.arch]
                   /\ delta' = IF keep THEN delta ELSE FALSE
                   /\ Goto(p, "archive") /\ UNCHANGED ret
                   /\ Logged(p, <<"extract_cd_info">>
                                \o (IF keep THEN <<"compat_check">>
                                    ELSE <<"remove_delta">>)
                                \o <<"identity_write">>)
    /\ UNCHANGED <<state, dm, args, call>>

\* lines 230-251: get iso infos and manage delta
ManageDelta(p) ==
    /\ pc[p] = "delta"
    /\ LET cd == _extract_cd_info(Dirname(Dirname(local[p].squashfs)))
       IN  /\ local' = [local EXCEPT ![p].cd = cd]
           /\ IF local[p].keep_delta /\ ~Compatible(config, cd)
              THEN /\ Return(p, 1)
                   /\ Logged(p, <<"extract_cd_info", "compat_check", "error_delta">>)
                   /\ UNCHANGED <<config, delta>>
              ELSE /\ config' = [config EXCEPT !.isoid = cd.isoid,
                                               !.release = cd.release,
                                               !.arch = cd.arch]
                   /\ delta' = IF local[p].keep_delta THEN delta ELSE FALSE
                   /\ Goto(p, "archive") /\ UNCHANGED ret
                   /\ Logged(p, <<"extract_cd_info">>
                                \o (IF local[p].keep_delta THEN <<"compat_check">>
                                    ELSE <<"remove_delta">>)
                                \o <<"identity_write">>)
    /\ UNCHANGED <<state, dm, args, call>>

\* lines 253-255 skipped after a restore: the restored archive flag is kept
SetArchiveKeepsRestored(p) ==
    /\ pc[p] = "archive"
    /\ config' = IF args[p].restore # "none" THEN config
                 ELSE [config EXCEPT !.archive = args[p].archive]
    /\ Goto(p, "start") /\ Logged(p, <<"archive_write">>)
    /\ UNCHANGED <<state, delta, dm, args, local, ret, call>>

\* lines 253-255
SetArchive(p) ==
    /\ pc[p] = "archive"
    /\ config' = [config EXCEPT !.archive = args[p].archive]
    /\ Goto(p, "start") /\ Logged(p, <<"archive_write">>)
    /\ UNCHANGED <<state, delta, dm, args, local, ret, call>>

\* lines 257-258 with the result of Container.start ignored
StartContainerIgnoringFailure(p) ==
    /\ pc[p] = "start"
    /\ \E started \in ContainerStart :
          /\ state' = IF started THEN "RUNNING" ELSE state
          /\ delta' = IF started THEN TRUE ELSE delta
          /\ Goto(p, "wait") /\ UNCHANGED ret
          /\ Logged(p, IF started THEN <<"runtime_start">>
                       ELSE <<"runtime_start", "start_failed">>)
    /\ UNCHANGED <<config, dm, args, local, call>>

\* lines 257-258
StartContainer(p) ==
    /\ pc[p] = "start"
    /\ \E started \in ContainerStart :
          IF started
          THEN /\ state' = "RUNNING"
               /\ delta' = TRUE
               /\ Goto(p, "wait") /\ UNCHANGED ret
               /\ Logged(p, <<"runtime_start">>)
          ELSE /\ Return(p, 1) /\ Logged(p, <<"runtime_start", "start_failed">>)
               /\ UNCHANGED <<state, delta>>
    /\ UNCHANGED <<config, dm, args, local, call>>

\* line 269: Container.wait returns once the container is STOPPED or when
\* TEST_TIMEOUT has elapsed, whichever comes first
WaitStopped(p) ==
    /\ pc[p] = "wait"
    /\ Goto(p, "after_wait") /\ Logged(p, <<"wait">>)
    /\ UNCHANGED <<state, config, delta, dm, args, local, ret, call>>

\* lines 270-275 with the forced stop of line 273 left out
AfterWaitWithoutStop(p) ==
    /\ pc[p] = "after_wait"
    /\ IF Running
       THEN Return(p, 1) /\ Logged(p, <<"error_timeout">>) /\ UNCHANGED state
       ELSE Return(p, 0) /\ UNCHANGED <<state, log>>
    /\ UNCHANGED <<config, delta, dm, args, local, call>>

\* lines 270-275 followed by utils.service_start("lightdm") before returning
AfterWaitRestartingDisplayManager(p) ==
    /\ pc[p] = "after_wait"
    /\ \E in \in SvcInputs(dm) :
          dm' = IF service_start(in).issued /\ service_start(in).ret = 0
                THEN "running" ELSE dm
    /\ IF Running
       THEN /\ \E stopped \in ContainerStop :
                  state' = IF stopped THEN "STOPPED" ELSE state
            /\ Return(p, 1)
            /\ Logged(p, <<"error_timeout", "runtime_stop", "service_start">>)
       ELSE Return(p, 0) /\ Logged(p, <<"service_start">>) /\ UNCHANGED state
    /\ UNCHANGED <<config, delta, args, local, call>>

\* lines 270-275: Container.stop may fail and leave the container running
AfterWait(p) ==
    /\ pc[p] = "after_wait"
    /\ IF Running
       THEN /\ \E stopped \in ContainerStop :
                  state' = IF stopped THEN "STOPPED" ELSE state
            /\ Return(p, 1) /\ Logged(p, <<"error_timeout", "runtime_stop">>)
       ELSE Return(p, 0) /\ UNCHANGED <<state, log>>
    /\ UNCHANGED <<config, delta, dm, args, local, call>>

\* the test run inside the container ends by itself
ContainerHalts ==
    /\ Running
    /\ state' = "STOPPED"
    /\ UNCHANGED <<config, delta, dm, pc, args, local, ret, log, call>>

\* lines 138-140: `otto create <name>`
cmd_create(p) ==
    /\ pc[p] = "idle"
    /\ \E r \in ContainerCreate :
          /\ Return(p, r.ret)
          /\ Logged(p, <<"cmd_create">>
                       \o (IF r.called THEN <<"runtime_create">> ELSE <<>>))
    /\ UNCHANGED <<state, config, delta, dm, args, local, call>>

\* lines 142-144: `otto destroy <name>`; a destroyed container leaves neither
\* a configuration nor a delta behind
cmd_destroy(p) ==
    /\ pc[p] = "idle"
    /\ \E r \in ContainerDestroy :
          /\ Return(p, r.ret)
          /\ Logged(p, <<"cmd_destroy">>
                       \o (IF r.called THEN <<"runtime_destroy">> ELSE <<>>))
          /\ config' = IF r.called /\ r.ret = 0 THEN FreshConfig ELSE config
          /\ delta' = IF r.called /\ r.ret = 0 THEN FALSE ELSE delta
    /\ UNCHANGED <<state, dm, args, local, call>>

cmd_start(p) ==
    \/ CheckRunning(p)
    \/ CheckSession(p)
    \/ StopDisplayManager(p)
    \/ Restore(p)
    \/ ResolveImage(p)
    \/ CustomInstallation(p)
    \/ ManageDelta(p)
    \/ SetArchive(p)
    \/ StartContainer(p)
    \/ WaitStopped(p)
    \/ AfterWait(p)

----------------------------------------------------------------------------
(* Sequential use: a fresh, stopped container; one invocation at a time.   *)

Init ==
    /\ state = "STOPPED"
    /\ config = FreshConfig
    /\ delta = FALSE
    /\ dm \in DmStates
    /\ pc = [p \in Procs |-> "idle"]
    /\ args = [p \in Procs |-> NoArgs]
    /\ local = [p \in Procs |-> NoLocal]
    /\ ret = [p \in Procs |-> <<>>]
    /\ log = [p \in Procs |-> <<>>]
    /\ call = NoCall

Next ==
    \/ Invoke(1)
    \/ cmd_start(1)
    \/ cmd_create(1)
    \/ cmd_destroy(1)
    \/ Exit(1)
    \/ ContainerHalts

Spec == Init /\ [][Next]_vars

----------------------------------------------------------------------------
(* Concurrent use: two `otto start` processes on the same container name,  *)
(* each run once, their steps interleaved.                                 *)

ConcArgs ==
    { a \in ArgSpace :
        /\ a.image \in {ImagePath("A"), ImagePath("B")}
        /\ a.custom_installation = "none" /\ ~a.new /\ ~a.archive
        /\ a.force_disconnect
        /\ a.restore \in {"none", "good.tgz"} }

InvokeConcurrently(p) ==
    /\ pc[p] = "idle"
    /\ \E a \in ConcArgs : Begin(p, a)

InitConc ==
    /\ state = "STOPPED"
    /\ config = FreshConfig
    /\ delta = FALSE
    /\ dm = "running"
    /\ pc = [p \in Procs |-> "idle"]
    /\ args = [p \in Procs |-> NoArgs]
    /\ local = [p \in Procs |-> NoLocal]
    /\ ret = [p \in Procs |-> <<>>]
    /\ log = [p \in Procs |-> <<>>]
    /\ call = NoCall

NextConc ==
    \/ \E p \in Procs : InvokeConcurrently(p) \/ cmd_start(p)
    \/ ContainerHalts

SpecConc == InitConc /\ [][NextConc]_vars

----------------------------------------------------------------------------
(* The service helpers on their own: utils.service_start("lightdm") or     *)
(* utils.service_stop("lightdm") called once, for every caller, every      *)
(* state of the service and every answer of the `status` command.          *)

\* the display manager after a service_start call
DmAfterStart(d, r) == IF r.issued /\ r.ret = 0 THEN "running" ELSE d

InitSvc ==
    /\ state = "STOPPED"
    /\ config = FreshConfig
    /\ delta = FALSE
    /\ dm \in DmStates
    /\ pc = [p \in Procs |-> "idle"]
    /\ args = [p \in Procs |-> NoArgs]
    /\ local = [p \in Procs |-> NoLocal]
    /\ ret = [p \in Procs |-> <<>>]
    /\ log = [p \in Procs |-> <<>>]
    /\ \E fn \in {"service_start", "service_stop"} : \E in \in SvcInputs(dm) :
          call = [fn |-> fn, in |-> in,
                  out |-> [ret |-> 0, issued |-> FALSE], applied |-> FALSE]

\* lines 45-62: service_start(service) / service_stop(service)
CallService ==
    /\ call.fn \in {"service_start", "service_stop"}
    /\ ~call.applied
    /\ LET r == IF call.fn = "service_start" THEN service_start(call.in)
                ELSE service_stop(call.in)
       IN  /\ call' = [call EXCEPT !.out = r, !.applied = TRUE]
           /\ dm' = IF call.fn = "service_start" THEN DmAfterStart(dm, r)
                    ELSE DmAfterStop(dm, r)
    /\ UNCHANGED <<state, config, delta, pc, args, local, ret, log>>

NextSvc == CallService

SpecSvc == InitSvc /\ [][NextSvc]_vars

----------------------------------------------------------------------------

(* Commands._extract_cd_info on its own: the isoid of every content of     *)
(* .disk/info of at most MaxLen characters over Alphabet.                  *)

MaxLen == 5

Alphabet == {"U", "a", " ", "-", "_", "\"", "(", ")"}

InfoStrings == UNION {[1..n -> Alphabet] : n \in 0..MaxLen}

InitIsoid ==
    /\ state = "STOPPED"
    /\ config = FreshConfig
    /\ delta = FALSE
    /\ dm = "running"
    /\ pc = [p \in Procs |-> "idle"]
    /\ args = [p \in Procs |-> NoArgs]
    /\ local = [p \in Procs |-> NoLocal]
    /\ ret = [p \in Procs |-> <<>>]
    /\ log = [p \in Procs |-> <<>>]
    /\ \E info \in InfoStrings :
          call = [fn |-> "isoid", in |-> info, out |-> <<>>, applied |-> FALSE]

\* lines 285-288: the isoid of the content of .disk/info
ExtractIsoid ==
    /\ call.fn = "isoid"
    /\ ~call.applied
    /\ call' = [call EXCEPT !.out = Isoid(call.in), !.applied = TRUE]
    /\ UNCHANGED <<state, config, delta, dm, pc, args, local, ret, log>>

NextIsoid == ExtractIsoid

SpecIsoid == InitIsoid /\ [][NextIsoid]_vars

----------------------------------------------------------------------------

(* Reading an invocation's record.                                         *)

HasIn(l, e) == \E i \in DOMAIN l : l[i] = e
CountIn(l, e) == Cardinality({i \in DOMAIN l : l[i] = e})
Has(p, e) == HasIn(log[p], e)
Count(p, e) == CountIn(log[p], e)

Triple(r) == <<r.isoid, r.release, r.arch>>
IdentityOf(img) == Triple(_extract_cd_info(MountPath(img)))

\* the steps that come after the display-manager stop
LaterSteps ==
    {"restore", "image_write", "remove_custom", "install_custom", "remove_delta",
     "identity_write", "archive_write", "runtime_start", "wait", "runtime_stop"}

NoneOf(l, steps) == \A i \in DOMAIN l : l[i] \notin steps

----------------------------------------------------------------------------
ExtractedAt(p) == _extract_cd_info(Dirname(Dirname(local[p].squashfs)))

DiffersFromStored(p) ==
    \/ config.isoid # ExtractedAt(p).isoid
    \/ config.release # ExtractedAt(p).release
    \/ config.arch # ExtractedAt(p).arch

(* C1: in cmd_start, whenever keep-delta is in effect and the identity     *)
(* triple extracted from the resolved image differs from the triple stored *)
(* in the config in at least one field, cmd_start returns 1 and the        *)
(* runtime start primitive is not invoked in that invocation.              *)
C1_KeepDeltaMismatchAborts ==
    [][\A p \in Procs :
          (pc[p] = "delta" /\ pc'[p] # "delta"
              /\ local[p].keep_delta /\ DiffersFromStored(p))
          => /\ pc'[p] = "done"
             /\ ret'[p] = <<1>>
             /\ ~HasIn(log'[p], "runtime_start")
             /\ config' = config /\ delta' = delta]_vars

\* an aborted start whose image differs from the stored identity in the
\* architecture alone
C1_Witness ==
    \E p \in Procs :
        /\ pc[p] = "done" /\ ret[p] = <<1>> /\ Has(p, "error_delta")
        /\ local[p].keep_delta
        /\ config.isoid = local[p].cd.isoid
        /\ config.release = local[p].cd.release
        /\ config.arch # local[p].cd.arch
        /\ config.arch # Unset

----------------------------------------------------------------------------
IdentityUnset == Triple(config) = <<Unset, Unset, Unset>>

IdentityOfRecordedImage ==
    /\ config.image # NoPath
    /\ config.image[2] \in IsoImages
    /\ Triple(config) = IdentityOf(config.image[2])
    /\ config.squashfs = SquashfsIn(config.image[2])

(* C2: after any sequence of cmd_start invocations, aborted ones included, *)
(* the config's identity triple is either entirely unset or all three of   *)
(* its fields are the identity of one single image; and once an invocation *)
(* has passed delta reconciliation the triple is the identity of the image *)
(* recorded in config.image.  (An invocation that aborts between the image *)
(* recording of lines 216-218 and the identity write of lines 249-251      *)
(* leaves config.image naming the new image beside the previous identity.) *)
C2_IdentityOfOneImage ==
    /\ IdentityUnset \/ \E img \in IsoImages : Triple(config) = IdentityOf(img)
    /\ \A p \in Procs : Has(p, "identity_write") => IdentityOfRecordedImage

\* a second start, of another image, that got past delta reconciliation
C2_Witness ==
    \E p \in Procs :
        /\ Has(p, "identity_write") /\ Has(p, "remove_delta")
        /\ config.image = ImagePath("D")
        /\ Triple(config) = IdentityOf("D")
        /\ delta

\* C2 as stated: on every exit path the triple is unset or is the identity
\* of the image recorded in the config
C2_AsStated ==
    \A p \in Procs :
        pc[p] = "done" => (IdentityUnset \/ IdentityOfRecordedImage)

----------------------------------------------------------------------------
(* C3: after the bounded wait has returned: if the container is still      *)
(* running, the runtime stop is issued exactly once and cmd_start returns  *)
(* 1; if it is not running, no stop is issued and cmd_start returns 0.     *)
C3_TimeoutStopsOnce ==
    [][\A p \in Procs :
          (pc[p] = "after_wait" /\ pc'[p] # "after_wait")
          => /\ pc'[p] = "done"
             /\ HasIn(log'[p], "wait")
             /\ IF state = "RUNNING"
                THEN ret'[p] = <<1>> /\ CountIn(log'[p], "runtime_stop") = 1
                ELSE ret'[p] = <<0>> /\ CountIn(log'[p], "runtime_stop") = 0
                     /\ state' = state]_vars

\* the wait ran into the timeout and the container was stopped by force
C3_Witness ==
    \E p \in Procs :
        /\ pc[p] = "done" /\ ret[p] = <<1>>
        /\ Has(p, "wait") /\ Has(p, "error_timeout") /\ Count(p, "runtime_stop") = 1
        /\ state = "STOPPED"

----------------------------------------------------------------------------
(* C4: if the display-manager stop returns a code r greater than 2,        *)
(* cmd_start returns exactly r and performs none of the later steps; if it *)
(* returns 0, 1 or 2, cmd_start continues to the restore step.             *)
C4_FatalStopPropagates ==
    [][\A p \in Procs :
          (pc[p] = "service_stop" /\ pc'[p] # "service_stop")
          => /\ HasIn(log'[p], "service_stop")
             /\ local'[p].svc > 2
                  => /\ pc'[p] = "done"
                     /\ ret'[p] = <<local'[p].svc>>
                     /\ NoneOf(log'[p], LaterSteps)
                     /\ config' = config /\ delta' = delta /\ state' = state
             /\ local'[p].svc \in {0, 1, 2}
                  => /\ pc'[p] = "restore"
                     /\ ret'[p] = <<>>]_vars

\* the status query failed: 99 is returned right after the stop
C4_Witness ==
    \E p \in Procs :
        /\ pc[p] = "done" /\ ret[p] = <<99>> /\ local[p].svc = 99
        /\ Has(p, "service_stop") /\ Has(p, "error_service")
        /\ NoneOf(log[p], LaterSteps)

\* the stop command failed (1) and the start went on to start the container
C4_WitnessContinues ==
    \E p \in Procs : local[p].svc = 1 /\ Has(p, "runtime_start")

----------------------------------------------------------------------------
(* C5: for every combination of caller privilege and of the outcomes of    *)
(* the status queries and of the stop command, service_stop returns a code *)
(* in {0, 1, 2, 3, 99}.                                                    *)
C5_DocumentedCodesOnly ==
    \A p \in Procs : Has(p, "service_stop") => local[p].svc \in {0, 1, 2, 3, 99}

----------------------------------------------------------------------------
MissingArchiveGiven(p) ==
    args[p].restore # "none" /\ ~ArchiveExists(args[p].restore)

(* C6: when cmd_start is given a restore path whose archive does not       *)
(* exist, it never returns 0 and never invokes the runtime start           *)
(* primitive, for every combination of the other flags: it returns 1,      *)
(* except that a fatal display-manager stop, which comes before the        *)
(* restore, returns its own code (3 or 99).                                *)
C6_MissingArchiveFails ==
    \A p \in Procs :
        MissingArchiveGiven(p) =>
            /\ ~Has(p, "runtime_start")
            /\ pc[p] \in {"check_running", "check_session", "service_stop",
                          "restore", "done"}
            /\ pc[p] = "done" =>
                /\ ret[p] # <<0>>
                /\ Has(p, "restore") => (ret[p] = <<1>> /\ Has(p, "error_no_archive"))
                /\ ret[p] # <<1>> =>
                     (Has(p, "error_service") /\ ret[p] = <<local[p].svc>>
                         /\ local[p].svc \in {3, 99})

\* the restore was attempted, after a display-manager stop, and failed
C6_Witness ==
    \E p \in Procs :
        /\ MissingArchiveGiven(p)
        /\ pc[p] = "done" /\ ret[p] = <<1>>
        /\ Has(p, "service_stop") /\ Has(p, "restore") /\ Has(p, "error_no_archive")

\* C6 as stated: cmd_start returns 1
C6_AsStated ==
    \A p \in Procs :
        (MissingArchiveGiven(p) /\ pc[p] = "done")
            => (ret[p] = <<1>> /\ ~Has(p, "runtime_start"))

----------------------------------------------------------------------------
StepOrder ==
    << "running_check", "session_check", "service_stop", "stop_command",
       "restore", "resolve", "image_write", "remove_custom", "install_custom",
       "extract_cd_info", "compat_check", "remove_delta", "identity_write",
       "archive_write", "runtime_start", "wait", "runtime_stop" >>

IsStep(e) == \E k \in DOMAIN StepOrder : StepOrder[k] = e
Rank(e) == CHOOSE k \in DOMAIN StepOrder : StepOrder[k] = e

(* C7: in every execution of cmd_start the steps that are performed occur  *)
(* in the documented order: running precheck, user-session precheck,       *)
(* display-manager stop, restore, image resolution and config recording,   *)
(* custom-installation handling, identity extraction, delta                *)
(* reconciliation, archive-flag write, runtime start, wait; no step is     *)
(* performed twice.                                                        *)
C7_StepsInDocumentedOrder ==
    \A p \in Procs :
        \A i, j \in DOMAIN log[p] :
            (i < j /\ IsStep(log[p][i]) /\ IsStep(log[p][j]))
                => Rank(log[p][i]) < Rank(log[p][j])

\* a restoring start that ran to the end: every kind of step but the
\* custom installation was performed
C7_Witness ==
    \E p \in Procs :
        /\ pc[p] = "done" /\ ret[p] = <<0>>
        /\ Has(p, "service_stop") /\ Has(p, "restore") /\ Has(p, "compat_check")
        /\ Has(p, "runtime_start") /\ Has(p, "wait")

----------------------------------------------------------------------------
(* C8: in any cmd_start invocation that was given a restore path the delta *)
(* is never removed, whatever the keep-delta flag, and the identity        *)
(* compatibility check is applied before the runtime start.                *)
C8_RestoreKeepsDelta ==
    \A p \in Procs :
        args[p].restore # "none" =>
            /\ ~Has(p, "remove_delta")
            /\ pc[p] \notin {"idle", "done"} \/ Has(p, "compat_check")
                 => local[p].keep_delta
            /\ Has(p, "runtime_start") =>
                 \E i, j \in DOMAIN log[p] :
                     i < j /\ log[p][i] = "compat_check" /\ log[p][j] = "runtime_start"

\* a restore without --keep-delta that reached the runtime start
C8_Witness ==
    \E p \in Procs :
        /\ args[p].restore # "none" /\ ~args[p].keep_delta
        /\ Has(p, "restore") /\ Has(p, "runtime_start") /\ delta

----------------------------------------------------------------------------
Effects == LaterSteps \cup {"service_stop", "stop_command"}

(* C9: if the container is already running when cmd_start checks it        *)
(* (line 162), cmd_start returns 1 and issues no display-manager stop, no  *)
(* restore, no config write, no delta removal, no runtime start and no     *)
(* runtime stop; the container is still running on return.                 *)
C9_AlreadyRunningIsLeftAlone ==
    [][\A p \in Procs :
          (pc[p] = "check_running" /\ pc'[p] # "check_running" /\ state = "RUNNING")
          => /\ pc'[p] = "done"
             /\ ret'[p] = <<1>>
             /\ NoneOf(log'[p], Effects)
             /\ state' = "RUNNING"
             /\ config' = config /\ delta' = delta /\ dm' = dm]_vars

\* a start refused because a previous run's forced stop failed and left the
\* container running
C9_Witness ==
    \E p \in Procs :
        /\ pc[p] = "done" /\ ret[p] = <<1>>
        /\ log[p] = <<"running_check", "warn_already_running">>
        /\ state = "RUNNING"

----------------------------------------------------------------------------
Acted(p) ==
    \/ Has(p, "image_write") \/ Has(p, "identity_write") \/ Has(p, "archive_write")
    \/ Has(p, "remove_delta") \/ Has(p, "restore") \/ Has(p, "runtime_start")

PastPrecheck(p) == pc[p] \notin {"idle", "check_running"} /\ ~Has(p, "warn_already_running")

(* C10: with two cmd_start invocations for the same container name running *)
(* concurrently, an invocation gets past the running precheck exactly when *)
(* the container is not RUNNING at the moment of its precheck, and one     *)
(* that finds it RUNNING returns 1 without acting on the container.  The   *)
(* precheck is the only guard: two invocations whose prechecks both come   *)
(* before either runtime start both write the config and the delta and     *)
(* both invoke the runtime start primitive.                                *)
C10_PrecheckIsTheOnlyGuard ==
    [][\A p \in Procs :
          /\ (pc[p] = "check_running" /\ pc'[p] # "check_running")
               => IF state = "RUNNING"
                  THEN pc'[p] = "done" /\ ret'[p] = <<1>>
                       /\ HasIn(log'[p], "warn_already_running")
                  ELSE pc'[p] = "check_session"
          /\ HasIn(log'[p], "warn_already_running")
               => (pc'[p] = "done" /\ NoneOf(log'[p], Effects))]_vars

\* one invocation has started the container and the other was turned away
C10_Witness ==
    \E p, q \in Procs :
        /\ p # q
        /\ Has(p, "runtime_start") /\ pc[p] = "wait" /\ state = "RUNNING"
        /\ pc[q] = "done" /\ ret[q] = <<1>> /\ Has(q, "warn_already_running")

\* C10 as stated: at most one invocation gets past the running precheck and
\* acts; the runtime start is never invoked by both, the config and the
\* delta are never written by both
C10_AsStated ==
    /\ ~(PastPrecheck(1) /\ PastPrecheck(2))
    /\ ~(Has(1, "runtime_start") /\ Has(2, "runtime_start"))
    /\ ~(Acted(1) /\ Acted(2))

----------------------------------------------------------------------------
\* `otto start <name> -i <squashfs image>` with no other flag
SquashfsStartArgs == [NoArgs EXCEPT !.image = ImagePath("S")]

\* the run of C11: no desktop session is found, lightdm is stopped, the
\* resolver answers (None, the image itself), nothing fails afterwards
SquashfsRun(p) ==
    /\ args[p] = SquashfsStartArgs
    /\ Has(p, "session_check") /\ ~Has(p, "warn_session")
    /\ Has(p, "service_stop") /\ local[p].svc = 0
    /\ Has(p, "resolve")
    /\ local[p].iso = NoPath /\ local[p].squashfs = ImagePath("S")
    /\ ~Has(p, "start_failed") /\ ~Has(p, "error_timeout")

(* C11: for a fresh, stopped container and a valid squashfs image, with no *)
(* flags, no desktop session, a display-manager stop that succeeds and a   *)
(* resolver that returns the squashfs unchanged with no iso mount path,    *)
(* cmd_start discards the delta, invokes the runtime start and returns 0.  *)
\* C11 as stated: the finished run has returned 0 after remove_delta and start
C11_AsStated ==
    \A p \in Procs :
        (pc[p] = "done" /\ SquashfsRun(p))
            => /\ ret[p] = <<0>>
               /\ Has(p, "remove_delta")
               /\ Has(p, "runtime_start")

----------------------------------------------------------------------------
\* invocation p has just run `otto create` or `otto destroy`
RanCreateOrDestroy(p) ==
    /\ pc[p] = "idle" /\ pc'[p] = "done"
    /\ HasIn(log'[p], "cmd_create") \/ HasIn(log'[p], "cmd_destroy")

----------------------------------------------------------------------------
\* the display-manager stop and every step after it
StopAndLaterSteps == {"service_stop", "stop_command"} \cup LaterSteps

(* C13: unless force-disconnect is given, a detected gnome-session makes   *)
(* cmd_start return 1 without stopping the display manager or running any  *)
(* later step; with force-disconnect the process-presence check is not     *)
(* performed at all and a session never blocks the start.                  *)
C13_SessionBlocksUnlessForced ==
    \A p \in Procs :
        /\ Has(p, "warn_session")
              => /\ ~args[p].force_disconnect
                 /\ pc[p] = "done" /\ ret[p] = <<1>>
                 /\ NoneOf(log[p], StopAndLaterSteps)
        /\ (Has(p, "session_check") /\ ~Has(p, "warn_session"))
              => ~args[p].force_disconnect
        /\ (args[p].force_disconnect /\ pc[p] # "idle")
              => NoneOf(log[p], {"session_check", "warn_session"})

C13_Witness ==
    /\ Has(1, "warn_session") /\ dm = "running" /\ state = "STOPPED"
    /\ args[1].image = ImagePath("A")

\* the other half of the case: a forced start that went on to the runtime
C13_WitnessForced ==
    args[1].force_disconnect /\ Has(1, "runtime_start")

----------------------------------------------------------------------------
\* the step in which invocation p calls Container.start
StartInvoked(p) == pc[p] = "start" /\ HasIn(log'[p], "runtime_start")

(* C14: whenever the runtime start is invoked in an invocation with        *)
(* neither keep-delta nor restore, remove_delta was called exactly once    *)
(* earlier in that invocation, whether or not the new image's identity     *)
(* equals the stored one; and whenever the runtime start is invoked, the   *)
(* identity triple stored in the config equals the triple extracted from   *)
(* the image resolved in this invocation.                                  *)
C14_DeltaRemovedAndIdentityStored ==
    [][\A p \in Procs :
          StartInvoked(p)
              => /\ (~args[p].keep_delta /\ args[p].restore = "none")
                        => Count(p, "remove_delta") = 1
                 /\ Has(p, "resolve") /\ Has(p, "extract_cd_info")
                 /\ local[p].cd = ExtractedAt(p)
                 /\ Triple(config) = Triple(ExtractedAt(p))]_vars

C14_Witness ==
    /\ Has(1, "runtime_start") /\ Count(1, "remove_delta") = 1
    /\ ~args[1].keep_delta /\ args[1].restore = "none"
    /\ Triple(config) = IdentityOf("B")

\* the case of an unchanged identity: the delta of the previous run of the
\* same image is about to be removed
C14_WitnessSameIdentity ==
    /\ pc[1] = "delta" /\ ~local[1].keep_delta /\ delta
    /\ Compatible(config, ExtractedAt(1))

----------------------------------------------------------------------------
(* C15: if the runtime start (container.start) reports failure, cmd_start  *)
(* returns 1 without waiting for the container and without issuing a       *)
(* runtime stop.                                                           *)
C15_FailedStartReturnsAtOnce ==
    \A p \in Procs :
        Has(p, "start_failed")
            => /\ pc[p] = "done" /\ ret[p] = <<1>>
               /\ NoneOf(log[p], {"wait", "error_timeout", "runtime_stop"})
               /\ log[p][Len(log[p])] = "start_failed"

C15_Witness ==
    /\ Has(1, "start_failed") /\ state = "STOPPED"
    /\ pc[1] = "done" /\ ret[1] = <<1>>

----------------------------------------------------------------------------
\* the answer of `status` is neither a success nor "Unknown job"
Unclassified(q) == q.ret # 0 /\ ~(q.ret = 256 /\ q.msg = "status: Unknown job:")

\* one of the status queries that service_stop makes fails that way
QueryFails(in) ==
    /\ in.uid = 0
    /\ \/ Unclassified(in.q1)
       \/ in.q1.ret = 0 /\ Unclassified(in.q2)
       \/ in.q1.ret = 0 /\ in.q2.ret = 0 /\ Unclassified(in.q3)

\* what service_stop returns to cmd_start in those cases
QueryFailureCodes ==
    { service_stop(in).ret :
        in \in { i \in UNION {SvcInputs(d) : d \in DmStates} : QueryFails(i) } }

(* C16: if, during the display-manager shutdown, the init system's status  *)
(* or existence query for the service fails with an unclassified error     *)
(* (neither success nor "unknown job"), cmd_start aborts: it returns a     *)
(* non-zero code and performs no restore, no config write, no delta        *)
(* removal and no runtime start.                                           *)
\* C16 as stated: after such a failure the invocation is over, without a later step
C16_AsStated ==
    \A p \in Procs :
        (Has(p, "service_stop") /\ local[p].svc \in QueryFailureCodes)
            => /\ pc[p] = "done"
               /\ ret[p] # <<>> /\ ret[p] # <<0>>
               /\ NoneOf(log[p], LaterSteps)

\* the failures that do abort: a status query after the first one
C16_LaterQueryAborts ==
    \A p \in Procs :
        (Has(p, "service_stop") /\ local[p].svc = 99)
            => /\ pc[p] = "done" /\ ret[p] = <<99>>
               /\ NoneOf(log[p], LaterSteps)

----------------------------------------------------------------------------
\* what `status` prints for the state the call asks for
RequestedStatus == IF call.fn = "service_start" THEN "start/running" ELSE "stop/waiting"

StatusSucceeded(in) ==
    /\ in.q1.ret = 0 /\ in.q2.ret = 0 /\ in.q3.ret = 0
    /\ in.q3.msg \in {"start/running", "stop/waiting"}

ServiceAbsent(in) == in.q1.ret = 256 /\ in.q1.msg = "status: Unknown job:"

(* C17: service_start_stop issues the start/stop command only when the     *)
(* caller is root, the service exists, the status query succeeded and the  *)
(* current state differs from the requested one; a non-root caller gets 3, *)
(* an absent service 2, a service already in the requested state 0, each   *)
(* without any command being issued, and a failing command yields 1.       *)
C17_CommandOnlyWhenNeeded ==
    call.applied =>
        LET in == call.in
            out == call.out
        IN  /\ out.issued => /\ in.uid = 0
                             /\ ~ServiceAbsent(in)
                             /\ StatusSucceeded(in)
                             /\ in.q3.msg # RequestedStatus
            /\ in.uid # 0 => (out.ret = 3 /\ ~out.issued)
            /\ (in.uid = 0 /\ ServiceAbsent(in)) => (out.ret = 2 /\ ~out.issued)
            /\ (in.uid = 0 /\ StatusSucceeded(in) /\ in.q3.msg = RequestedStatus)
                  => (out.ret = 0 /\ ~out.issued)
            /\ (out.issued /\ in.cmdret # 0) => out.ret = 1
            /\ (out.issued /\ in.cmdret = 0) => out.ret = 0

C17_Witness ==
    /\ call.applied /\ call.fn = "service_start"
    /\ call.out.issued /\ call.out.ret = 1 /\ dm = "stopped"

\* the four outcomes without a command are all reached
C17_WitnessAlreadyInState ==
    /\ call.applied /\ call.fn = "service_stop" /\ call.in.uid = 0
    /\ ~call.out.issued /\ call.out.ret = 0 /\ dm = "stopped"

----------------------------------------------------------------------------
\* what becomes of one character: dropped, turned into "_", or lower-cased
CharImage(c) ==
    IF c \in {"\"", "(", ")"} THEN <<>>
    ELSE IF c \in {" ", "-"} THEN <<"_">>
    ELSE IF c = "U" THEN <<"u">>
    ELSE <<c>>

RECURSIVE CharImages(_)
CharImages(s) == IF s = <<>> THEN <<>> ELSE CharImage(Head(s)) \o CharImages(Tail(s))

RECURSIVE LeadingUnderscores(_)
LeadingUnderscores(s) ==
    IF s = <<>> \/ Head(s) # "_" THEN 0 ELSE 1 + LeadingUnderscores(Tail(s))

\* every maximal run of k underscores is replaced by a run of RunLength[k]
RECURSIVE WithRuns(_, _)
WithRuns(s, RunLength) ==
    IF s = <<>> THEN <<>>
    ELSE LET k == LeadingUnderscores(s)
         IN  IF k = 0 THEN <<Head(s)>> \o WithRuns(Tail(s), RunLength)
             ELSE [i \in 1..RunLength[k] |-> "_"]
                  \o WithRuns(SubSeq(s, k + 1, Len(s)), RunLength)

\* the reference normalisation: a run of underscores becomes one underscore
Collapsed == [k \in 1..MaxLen |-> 1]

\* one pass of "___" -> "_": each full triple of a run becomes one underscore,
\* the one or two underscores left over stay
TriplesReplaced == [k \in 1..MaxLen |-> (k \div 3) + (k % 3)]

AdjacentUnderscores(s) == \E i \in 1..(Len(s) - 1) : s[i] = "_" /\ s[i + 1] = "_"

\* C18 as stated: the isoid is the reference normalisation, without two
\* adjacent underscores
C18_AsStated ==
    call.applied
        => /\ call.out = WithRuns(CharImages(call.in), Collapsed)
           /\ ~AdjacentUnderscores(call.out)

(* C18: for every content of .disk/info over the alphabet (letters, space, *)
(* hyphen, underscore, double quote, parentheses), the isoid computed by   *)
(* _extract_cd_info is the content with quotes and parentheses removed,    *)
(* every space and hyphen turned into an underscore, every run of k        *)
(* underscores shortened to (k div 3) + (k mod 3) underscores, and the     *)
(* result lower-cased: it holds no upper-case letter, quote, parenthesis,  *)
(* space or hyphen, but it may hold adjacent underscores.                  *)
C18_IsoidNormalisation ==
    call.applied
        => /\ call.out = WithRuns(CharImages(call.in), TriplesReplaced)
           /\ \A i \in DOMAIN call.out :
                 call.out[i] \notin {"U", "\"", "(", ")", " ", "-"}
           /\ Len(call.out) <= Len(call.in)

C18_Witness ==
    /\ call.applied
    /\ call.in = <<"\"", "U", " ", "-", "a">>
    /\ call.out = <<"u", "_", "_", "a">>

----------------------------------------------------------------------------
(* C19: whenever the runtime start is invoked, the config's archive flag   *)
(* equals the archive flag of this invocation, even when a restore         *)
(* populated the config with a different archive value.                    *)
C19_ArchiveFlagIsTheInvocations ==
    [][\A p \in Procs :
          StartInvoked(p)
              => /\ config.archive = args[p].archive
                 /\ config'.archive = args[p].archive
                 /\ Has(p, "archive_write")]_vars

C19_Witness ==
    /\ Has(1, "runtime_start") /\ Has(1, "restore")
    /\ args[1].restore = "good.tgz" /\ ArchivedConfig.archive
    /\ ~args[1].archive /\ ~config.archive

----------------------------------------------------------------------------
\* invocation p was given a restore path with a custom installation or --new
RestoreWithCustomOrNew(p) ==
    /\ pc[p] # "idle"
    /\ args[p].restore # "none"
    /\ args[p].custom_installation # "none" \/ args[p].new

(* C20: when cmd_start is invoked with a restore path together with a      *)
(* custom-installation directory or the new flag, it returns 1 before any  *)
(* other step: no running precheck, no session check, no display-manager   *)
(* stop, no restore, no config write, no delta removal and no runtime      *)
(* start, whatever the state of the container.                             *)
C20_IncompatibleParametersRejectedFirst ==
    \A p \in Procs :
        RestoreWithCustomOrNew(p)
            => /\ pc[p] = "done" /\ ret[p] = <<1>>
               /\ log[p] = <<"error_incompatible">>
               /\ local[p].svc = 0 /\ local[p].imagepath = NoPath

C20_Witness ==
    /\ RestoreWithCustomOrNew(1) /\ state = "RUNNING"
    /\ args[1].custom_installation = "dir" /\ ~args[1].new
    /\ args[1].restore = "good.tgz" /\ config # ArchivedConfig

\* the same with --new alone, on a stopped container
C20_WitnessNew ==
    /\ RestoreWithCustomOrNew(1) /\ state = "STOPPED"
    /\ args[1].custom_installation = "none" /\ args[1].new

----------------------------------------------------------------------------
\* invocation p issued the stop command of lightdm and the command succeeded
StoppedDisplayManager(p) ==
    Has(p, "stop_command") /\ local[p].svc = 0

\* a step of invocation p after its call of service_stop
StepAfterStop(p) ==
    /\ Has(p, "service_stop")
    /\ pc[p] # "done" /\ pc'[p] # pc[p]

(* C21: cmd_start never restarts the host display manager: on every exit   *)
(* path reached after the display-manager stop was issued (abort at        *)
(* restore, image resolution, custom installation, identity mismatch,      *)
(* runtime start failure, timeout, or success) service_start is never      *)
(* invoked, so a display manager that was stopped by the invocation is     *)
(* still stopped when cmd_start returns.                                   *)
C21_DisplayManagerStaysStopped ==
    [][\A p \in Procs :
          /\ StepAfterStop(p)
                => /\ dm' = dm
                   /\ NoneOf(log'[p], {"service_start", "start_command"})
          /\ (StoppedDisplayManager(p) /\ pc'[p] = "done")
                => (dm' = "stopped" /\ ret'[p] # <<>>)]_vars

C21_Witness ==
    /\ StoppedDisplayManager(1) /\ pc[1] = "done" /\ ret[1] = <<0>>
    /\ Has(1, "runtime_start") /\ dm = "stopped"

\* exit paths after the stop: missing archive, unresolved image, failed
\* custom installation, identity mismatch, failed start, timeout
C21_WitnessAborts ==
    /\ StoppedDisplayManager(1) /\ pc[1] = "done" /\ ret[1] = <<1>>
    /\ dm = "stopped"
    /\ \/ Has(1, "error_no_archive") \/ Has(1, "error_delta")
       \/ Has(1, "start_failed") \/ Has(1, "error_timeout")

====
